---- MODULE Spec2Model ----
(***************************************************************************)
(* copypasta-cli: the command-line client of the "pasta" service.          *)
(*                                                                         *)
(* The module models                                                       *)
(*   - the REST session of src/src/client.rs (PastaClient, check_resp),    *)
(*   - the start-up and login handshake of src/src/main.rs (main, get_app, *)
(*     get_app_if_configured, build_and_verify, verify_login),             *)
(*   - the producer and the consumer of src/src/streams.rs (produce,       *)
(*     consume) and their older copies in src/src/main.rs,                 *)
(* against an environment that answers HTTP requests, delivers channel     *)
(* events and performs the local reads and writes.                         *)
(***************************************************************************)
EXTENDS Integers, Sequences, FiniteSets, TLC

(***************************************************************************)
(* Bounds of the model.                                                    *)
(***************************************************************************)
\* Length of the producer's read buffer. The program allocates 1_000_000
\* bytes (streams.rs:79); the model keeps the algorithm and scales the size.
BufLen == 2

\* The longest local input: two full buffers and a half one.
MaxInputLen == 2 * BufLen + BufLen \div 2

\* How many events the environment delivers to a loop it drives freely.
MaxEvents == 4

\* How many of them it delivers to the consumer, whose events carry data.
MaxConsumerEvents == 4

\* How many events may wait in a loop's inbound stream.
MaxQueue == 2

\* The byte values local input is made of (a line feed and 0xFF).
ByteValues == {10, 255}

Min(a, b) == IF a <= b THEN a ELSE b

Last(s) == s[Len(s)]

Drop(s, n) == SubSeq(s, n + 1, Len(s))

Take(s, n) == SubSeq(s, 1, n)

SeqsUpTo(S, n) == UNION {[1..k -> S] : k \in 0..n}

(***************************************************************************)
(* base64 (STANDARD alphabet, padded), as the base64 crate computes it.    *)
(* Characters are one-character strings; texts are sequences of them.      *)
(***************************************************************************)
B64Alphabet ==
    << "A","B","C","D","E","F","G","H","I","J","K","L","M","N","O","P",
       "Q","R","S","T","U","V","W","X","Y","Z","a","b","c","d","e","f",
       "g","h","i","j","k","l","m","n","o","p","q","r","s","t","u","v",
       "w","x","y","z","0","1","2","3","4","5","6","7","8","9","+","/" >>

Pad == "="

B64Char(i) == B64Alphabet[i + 1]

IsB64Char(c) == \E i \in 1..Len(B64Alphabet) : B64Alphabet[i] = c

B64Index(c) == (CHOOSE i \in 1..Len(B64Alphabet) : B64Alphabet[i] = c) - 1

\* One group of 1, 2 or 3 bytes becomes 4 characters.
EncodeGroup(bs) ==
    LET b1 == bs[1]
        b2 == IF Len(bs) >= 2 THEN bs[2] ELSE 0
        b3 == IF Len(bs) >= 3 THEN bs[3] ELSE 0
        n  == b1 * 65536 + b2 * 256 + b3
    IN  << B64Char(n \div 262144),
           B64Char((n \div 4096) % 64),
           IF Len(bs) >= 2 THEN B64Char((n \div 64) % 64) ELSE Pad,
           IF Len(bs) >= 3 THEN B64Char(n % 64) ELSE Pad >>

RECURSIVE Base64Encode(_)
Base64Encode(bs) ==
    IF Len(bs) = 0 THEN << >>
    ELSE IF Len(bs) <= 3 THEN EncodeGroup(bs)
    ELSE EncodeGroup(Take(bs, 3)) \o Base64Encode(Drop(bs, 3))

\* A group of 4 characters is well formed when its padding is at the end
\* and the bits the padding leaves unused are zero.
GroupOk(g, isLast) ==
    /\ IsB64Char(g[1]) /\ IsB64Char(g[2])
    /\ \/ IsB64Char(g[3]) /\ IsB64Char(g[4])
       \/ isLast /\ IsB64Char(g[3]) /\ g[4] = Pad /\ B64Index(g[3]) % 4 = 0
       \/ isLast /\ g[3] = Pad /\ g[4] = Pad /\ B64Index(g[2]) % 16 = 0

DecodeGroup(g) ==
    LET c3 == IF g[3] = Pad THEN 0 ELSE B64Index(g[3])
        c4 == IF g[4] = Pad THEN 0 ELSE B64Index(g[4])
        n  == B64Index(g[1]) * 262144 + B64Index(g[2]) * 4096 + c3 * 64 + c4
        all == << n \div 65536, (n \div 256) % 256, n % 256 >>
    IN  IF g[3] = Pad THEN Take(all, 1)
        ELSE IF g[4] = Pad THEN Take(all, 2)
        ELSE all

RECURSIVE Base64Valid(_)
Base64Valid(cs) ==
    IF Len(cs) = 0 THEN TRUE
    ELSE IF Len(cs) < 4 THEN FALSE
    ELSE GroupOk(Take(cs, 4), Len(cs) = 4) /\ Base64Valid(Drop(cs, 4))

RECURSIVE Base64Bytes(_)
Base64Bytes(cs) ==
    IF Len(cs) = 0 THEN << >>
    ELSE DecodeGroup(Take(cs, 4)) \o Base64Bytes(Drop(cs, 4))

\* base64::decode: Ok(bytes) or Err.
Base64Decode(cs) ==
    IF Base64Valid(cs) THEN [ok |-> TRUE, bytes |-> Base64Bytes(cs)]
    ELSE [ok |-> FALSE, bytes |-> << >>]

(***************************************************************************)
(* Event payloads: the JSON documents of the protocol. A payload is a JSON *)
(* string, or a JSON object of which the fields "data" and "error" are     *)
(* kept.                                                                   *)
(***************************************************************************)
JString(s) ==
    [t |-> "string", str |-> s, data |-> "absent", dataStr |-> << >>, error |-> FALSE]

EmptyObject ==
    [t |-> "object", str |-> << >>, data |-> "absent", dataStr |-> << >>, error |-> FALSE]

ErrorObject == [EmptyObject EXCEPT !.error = TRUE]

DataObject(s) == [EmptyObject EXCEPT !.data = "string", !.dataStr = s]

\* {"data": 1}: a data field that is no string.
BadDataObject == [EmptyObject EXCEPT !.data = "number"]

Quote == "\""

EmptyObjectText == << "{", "}" >>

ErrorObjectText ==
    << "{", Quote, "e", "r", "r", "o", "r", Quote, ":", " ", "t", "r", "u", "e", "}" >>

\* The text the producer builds in out_buf: the base64 text between quotes.
QuotedText(s) == << Quote >> \o s \o << Quote >>

\* serde_json::from_str on the texts the program sends.
FromStr(text) ==
    IF text = EmptyObjectText THEN EmptyObject
    ELSE IF text = ErrorObjectText THEN ErrorObject
    ELSE IF /\ Len(text) >= 2
            /\ text[1] = Quote
            /\ Last(text) = Quote
            /\ \A i \in 2..(Len(text) - 1) : text[i] \notin {Quote, "\\"}
         THEN JString(SubSeq(text, 2, Len(text) - 1))
    ELSE [EmptyObject EXCEPT !.t = "invalid"]

\* An event of the channel: Event::Custom(name) or Event::Defined(name).
CustomEvent(name, payload) == [kind |-> "Custom", name |-> name, payload |-> payload]

DefinedEvent(name) == [kind |-> "Defined", name |-> name, payload |-> EmptyObject]

\* No event taken yet.
NoEvent == [kind |-> "None", name |-> "", payload |-> EmptyObject]


(***************************************************************************)
(* The state.                                                              *)
(***************************************************************************)
VARIABLES
    \* the credential file and the session (client.rs, main.rs)
    file,       \* the persisted credential file
    config,     \* PastaClient.config: Option<ClientConfig>
    calls,      \* every outbound call made so far, in order
    cmd,        \* the subcommand of this run
    mpc,        \* where main() stands
    mresult,    \* how the start-up ended
    caller,     \* the caller of verify_login: get_app or build_and_verify
    vres,       \* the result verify_login holds
    shown,      \* the login URLs presented to the user
    saves,      \* how many times the credential file was written
    \* the producer (streams.rs produce)
    input,      \* the bytes of local input
    inPos,      \* how many of them have been read
    ppc,        \* where produce() stands
    pstate,     \* the ProducerState of the fold
    ptoken,     \* the token produce() loaded
    topic,      \* the topic produce() joins
    pin,        \* the inbound event sequence of the producer
    popen,      \* whether the producer's connection is open
    pout,       \* the events the producer sent, in order
    presult,    \* what produce() returned
    nReq,       \* how many bytes_requested events the fold handled
    reads,      \* the reads of local input: answered request and outcome
    psentAt,    \* for each event of pout, the value of nReq when it was sent
    pDelivered, \* how many events the environment delivered to the producer
    plock,      \* the mutex of the producer's topic handle: free or held
    \* the consumer (streams.rs consume)
    cpc,        \* where consume() stands
    cstate,     \* the ConsumerState of the fold
    ctoken,     \* the token consume() loaded
    cin,        \* the inbound event sequence of the consumer
    copen,      \* whether the consumer's connection is open
    cout,       \* the events the consumer sent, in order
    cresult,    \* what consume() returned
    output,     \* the bytes on the consumer's local output
    written,    \* the decoded chunks the consumer handed to write, in order
    nBytes,     \* how many bytes events the fold handled to the end
    noMore,     \* the fold handled no_more_data in state Consuming
    peerOk,     \* the peer sent no bytes event without a request for it
    cBytesIn,   \* how many bytes events were delivered to the consumer
    cDelivered, \* how many events the environment delivered to the consumer
    clock,      \* the mutex of the consumer's topic handle: free or held
    cLast,      \* the last inbound event the fold of consume() took
    \* the relay server between a producer and a consumer
    srvP,       \* how many events of pout the server has handled
    srvC,       \* how many events of cout the server has handled
    srvWaiting, \* request_bytes not yet passed on to the producer
    srvDone     \* the server has seen done

sessionVars == << file, config, calls, cmd, mpc, mresult, caller, vres, shown, saves >>

producerVars ==
    << input, inPos, ppc, pstate, ptoken, topic, pin, popen, pout, presult,
       nReq, reads, psentAt, pDelivered, plock >>

consumerVars ==
    << cpc, cstate, ctoken, cin, copen, cout, cresult, output, written, nBytes,
       noMore, peerOk, cBytesIn, cDelivered, clock, cLast >>

serverVars == << srvP, srvC, srvWaiting, srvDone >>

vars == << sessionVars, producerVars, consumerVars, serverVars >>

(***************************************************************************)
(* client.rs: the session.                                                 *)
(***************************************************************************)
\* Option<ClientConfig>; a token is a sequence of characters.
NoConfig == [some |-> FALSE, token |-> << >>, host |-> ""]

SomeConfig(token, host) == [some |-> TRUE, token |-> token, host |-> host]

DEFAULT_SCHEME == "http"

DEFAULT_HOST == "localhost:4000"

\* PastaClient::get_url
get_url(cfg, path) ==
    IF cfg.some THEN [scheme |-> DEFAULT_SCHEME, host |-> cfg.host, path |-> path]
    ELSE [scheme |-> DEFAULT_SCHEME, host |-> DEFAULT_HOST, path |-> path]

\* PastaClient::get_socket_url
get_socket_url(cfg) == [scheme |-> "ws", host |-> "localhost:4000", path |-> "socket"]

\* PastaClient::get_token: Option<String>, as a set of at most one token.
get_token(cfg) == IF cfg.some THEN {cfg.token} ELSE {}

\* PastaClient::add_token: the bearer credential of the request, if any.
add_token(cfg) == IF cfg.some THEN {cfg.token} ELSE {}

\* A response body: the fields the client decodes, each absent ({}) or set.
Body(username, login_url, name, content, list) ==
    [username |-> username, login_url |-> login_url, name |-> name,
     content |-> content, list |-> list]

UserBody == Body({"alice"}, {}, {}, {}, {})

LoginBody == Body({}, {"https://x/auth"}, {}, {}, {})

EmptyUrlBody == Body({}, {""}, {}, {}, {})

StreamBody == Body({}, {}, {"s1"}, {}, {})

OtherStreamBody == Body({}, {}, {"s2"}, {}, {})

PastaBody == Body({}, {}, {}, {"hello"}, {})

ListBody == Body({}, {}, {}, {}, {<< "hello" >>})

JunkBody == Body({}, {}, {}, {}, {})

Bodies ==
    {UserBody, LoginBody, EmptyUrlBody, StreamBody, OtherStreamBody, PastaBody,
     ListBody, JunkBody}

Statuses == {200, 403, 500}

\* What the environment answers to a request: a transport failure or an
\* HTTP response.
Responses ==
    {[transport |-> "fail", status |-> 0, body |-> JunkBody]}
        \cup [transport : {"ok"}, status : Statuses, body : Bodies]

\* Result<_, HeyError>
Ok(value) == [tag |-> "Ok", value |-> value, url |-> "", status |-> 0]

NotLoggedIn(url) == [tag |-> "NotLoggedIn", value |-> {}, url |-> url, status |-> 0]

ServerError(status) == [tag |-> "ServerError", value |-> {}, url |-> "", status |-> status]

RequestError == [tag |-> "RequestError", value |-> {}, url |-> "", status |-> 0]

LoginError == [tag |-> "LoginError", value |-> {}, url |-> "", status |-> 0]

NoConfigFound == [tag |-> "NoConfigFound", value |-> {}, url |-> "", status |-> 0]

NoToken == [tag |-> "NoToken", value |-> {}, url |-> "", status |-> 0]

Pending == [tag |-> "Pending", value |-> {}, url |-> "", status |-> 0]

Panic == [tag |-> "Panic", value |-> {}, url |-> "", status |-> 0]

\* resp.json::<T>(): the document decodes when the field of T is there.
Json(body, field) == IF body[field] = {} THEN RequestError ELSE Ok(body[field])

\* A variant of check_resp that takes 403 for any other status.
check_resp_forbidden_as_server_error(resp) ==
    IF resp.status = 200 THEN Ok({}) ELSE ServerError(resp.status)

check_resp(resp) ==
    IF resp.status = 200 THEN Ok({})
    ELSE IF resp.status = 403
         THEN LET r == Json(resp.body, "login_url")
              IN  IF r.tag = "Ok" THEN NotLoggedIn(CHOOSE u \in r.value : TRUE)
                  ELSE r
    ELSE ServerError(resp.status)

\* The field of the body each call decodes after check_resp (post decodes
\* none).
Decodes ==
    [login |-> "username", latest |-> "content", list |-> "list",
     create_stream |-> "name", post |-> ""]

RestOps == DOMAIN Decodes

Paths ==
    [login |-> "api", latest |-> "api/latest", list |-> "api/list",
     create_stream |-> "api/stream", post |-> "api/create"]

\* login, latest, list, post, create_stream: send()?, check_resp()?, json()?
rest_result(op, resp) ==
    IF resp.transport = "fail" THEN RequestError
    ELSE LET c == check_resp(resp)
         IN  IF c.tag # "Ok" THEN c
             ELSE IF Decodes[op] = "" THEN Ok({})
             ELSE Json(resp.body, Decodes[op])

\* The record of one outbound call: what it carried and what was installed.
Call(op, url, auth, cfg, resp, result) ==
    [op |-> op, url |-> url, auth |-> auth,
     installed |-> IF cfg.some THEN {cfg.token} ELSE {},
     resp |-> resp, result |-> result]

NoResponse == [transport |-> "none", status |-> 0, body |-> JunkBody]


(***************************************************************************)
(* streams.rs: the producer.                                               *)
(***************************************************************************)
\* io::stdin().read(&mut in_buf) with `remaining` bytes of input left: an
\* error, Ok(0) at the end of input, or Ok(n) with 1 <= n <= in_buf.len().
\* A read may return fewer bytes than the buffer holds and the input has.
ReadOutcomes(remaining) ==
    {[tag |-> "Err", n |-> 0]}
        \cup {[tag |-> "Ok", n |-> k] :
                k \in IF remaining = 0 THEN {0} ELSE 1..Min(remaining, BufLen)}

NoRead == [tag |-> "None", n |-> 0]

\* The arm of the match that reads local input.
ProducerReads(state, evt) ==
    state = "ReadyToProduce" /\ evt.kind = "Custom" /\ evt.name = "bytes_requested"

\* One turn of the fold of produce(): the events it sends, whether it reads
\* local input, and whether it ends the fold (Err(())).
Turn(state, sends, halt, read) ==
    [state |-> state, sends |-> sends, halt |-> halt, read |-> read]

\* Variants of produce_fold with one slip each.
\* ... answers every custom event, not only bytes_requested:
produce_fold_any_event(state, evt, rd, data) ==
    IF state = "ReadyToProduce" /\ evt.kind = "Custom"
    THEN IF data = << >>
         THEN Turn(state, << CustomEvent("done", FromStr(EmptyObjectText)) >>, TRUE, TRUE)
         ELSE Turn("ReadyToProduce",
                   << CustomEvent("bytes",
                         FromStr(QuotedText(Base64Encode(Take(data, 1))))) >>,
                   FALSE, TRUE)
    ELSE Turn(state, << >>, FALSE, FALSE)

\* ... goes on folding after done:
produce_fold_goes_on(state, evt, rd, data) ==
    IF ProducerReads(state, evt)
    THEN IF rd.tag = "Ok" /\ rd.n = 0
         THEN Turn(state, << CustomEvent("done", FromStr(EmptyObjectText)) >>, FALSE, TRUE)
         ELSE IF rd.tag = "Ok"
         THEN Turn("ReadyToProduce",
                   << CustomEvent("bytes",
                         FromStr(QuotedText(Base64Encode(Take(data, rd.n))))) >>,
                   FALSE, TRUE)
         ELSE Turn(state, << CustomEvent("done", FromStr(ErrorObjectText)) >>, TRUE, TRUE)
    ELSE Turn(state, << >>, FALSE, FALSE)

\* ... reports a failed read as a clean end:
produce_fold_no_flag(state, evt, rd, data) ==
    IF ProducerReads(state, evt)
    THEN IF rd.tag = "Ok" /\ rd.n > 0
         THEN Turn("ReadyToProduce",
                   << CustomEvent("bytes",
                         FromStr(QuotedText(Base64Encode(Take(data, rd.n))))) >>,
                   FALSE, TRUE)
         ELSE Turn(state, << CustomEvent("done", FromStr(EmptyObjectText)) >>, TRUE, TRUE)
    ELSE Turn(state, << >>, FALSE, FALSE)

\* ... encodes the whole buffer instead of the n bytes read:
produce_fold_whole_buffer(state, evt, rd, data) ==
    IF ProducerReads(state, evt)
    THEN IF rd.tag = "Ok" /\ rd.n = 0
         THEN Turn(state, << CustomEvent("done", FromStr(EmptyObjectText)) >>, TRUE, TRUE)
         ELSE IF rd.tag = "Ok"
         THEN Turn("ReadyToProduce",
                   << CustomEvent("bytes",
                         FromStr(QuotedText(Base64Encode(
                             Take(data, Min(Len(data), BufLen)))))) >>,
                   FALSE, TRUE)
         ELSE Turn(state, << CustomEvent("done", FromStr(ErrorObjectText)) >>, TRUE, TRUE)
    ELSE Turn(state, << >>, FALSE, FALSE)

\* ... sends nothing at the end of input and goes on:
produce_fold_silent_eof(state, evt, rd, data) ==
    IF ProducerReads(state, evt)
    THEN IF rd.tag = "Ok" /\ rd.n = 0
         THEN Turn(state, << >>, FALSE, TRUE)
         ELSE IF rd.tag = "Ok"
         THEN Turn("ReadyToProduce",
                   << CustomEvent("bytes",
                         FromStr(QuotedText(Base64Encode(Take(data, rd.n))))) >>,
                   FALSE, TRUE)
         ELSE Turn(state, << CustomEvent("done", FromStr(ErrorObjectText)) >>, TRUE, TRUE)
    ELSE Turn(state, << >>, FALSE, FALSE)

produce_fold(state, evt, rd, data) ==
    IF ProducerReads(state, evt)
    THEN IF rd.tag = "Ok" /\ rd.n = 0
         THEN Turn(state, << CustomEvent("done", FromStr(EmptyObjectText)) >>, TRUE, TRUE)
         ELSE IF rd.tag = "Ok"
         THEN Turn("ReadyToProduce",
                   << CustomEvent("bytes",
                         FromStr(QuotedText(Base64Encode(Take(data, rd.n))))) >>,
                   FALSE, TRUE)
         ELSE Turn(state, << CustomEvent("done", FromStr(ErrorObjectText)) >>, TRUE, TRUE)
    ELSE Turn(state, << >>, FALSE, FALSE)

\* produce(), lines 52-56: the socket URL, then the token (expect panics
\* when the session has no credentials).
P_GetToken ==
    /\ ppc = "start"
    /\ IF get_token(config) = {}
       THEN /\ ppc' = "panicked"
            /\ presult' = Panic
            /\ ptoken' = ptoken
       ELSE /\ ppc' = "create_stream"
            /\ ptoken' = get_token(config)
            /\ presult' = presult
    /\ UNCHANGED << sessionVars, consumerVars, serverVars, input, inPos, pstate,
                    topic, pin, popen, pout, nReq, reads, psentAt, pDelivered, plock >>

\* produce() going on to connect when create_stream failed.
P_CreateStream_goes_on ==
    /\ ppc = "create_stream"
    /\ \E resp \in Responses :
         LET r == rest_result("create_stream", resp)
         IN  /\ calls' = Append(calls,
                    Call("create_stream", get_url(config, Paths["create_stream"]),
                         add_token(config), config, resp, r))
             /\ topic' = IF r.tag = "Ok"
                         THEN << "streams:", CHOOSE n \in r.value : TRUE >>
                         ELSE << "streams:", "" >>
             /\ ppc' = "connect"
             /\ presult' = presult
    /\ UNCHANGED << file, config, cmd, mpc, mresult, caller, vres, shown, saves,
                    consumerVars, serverVars, input, inPos, pstate, ptoken,
                    pin, popen, pout, nReq, reads, psentAt, pDelivered, plock >>

\* produce(), lines 58-64: client.create_stream()? names the topic.
P_CreateStream ==
    /\ ppc = "create_stream"
    /\ \E resp \in Responses :
         LET r == rest_result("create_stream", resp)
         IN  /\ calls' = Append(calls,
                    Call("create_stream", get_url(config, Paths["create_stream"]),
                         add_token(config), config, resp, r))
             /\ IF r.tag = "Ok"
                THEN /\ topic' = << "streams:", CHOOSE n \in r.value : TRUE >>
                     /\ ppc' = "connect"
                     /\ presult' = presult
                ELSE /\ topic' = topic
                     /\ ppc' = "returned"
                     /\ presult' = r
    /\ UNCHANGED << file, config, cmd, mpc, mresult, caller, vres, shown, saves,
                    consumerVars, serverVars, input, inPos, pstate, ptoken,
                    pin, popen, pout, nReq, reads, psentAt, pDelivered, plock >>

\* produce(), lines 66-70: the connection is opened with the token as its
\* parameter.
P_Connect ==
    /\ ppc = "connect"
    /\ calls' = Append(calls,
           Call("connect", get_socket_url(config), ptoken, config, NoResponse, Ok({})))
    /\ popen' = TRUE
    /\ ppc' = "join"
    /\ UNCHANGED << file, config, cmd, mpc, mresult, caller, vres, shown, saves,
                    consumerVars, serverVars, input, inPos, pstate, ptoken, topic,
                    pin, pout, presult, nReq, reads, psentAt, pDelivered, plock >>

\* chan.lock().unwrap() on the Arc<Mutex<Channel>> of the topic: the mutex
\* is taken when it is free; a thread that locks a mutex it already holds
\* never gets it.
MutexLock(l) == IF l = "free" THEN "held" ELSE "deadlock"

\* The MutexGuard goes out of scope.
MutexDrop(l) == IF l = "held" THEN "free" ELSE l

\* chan.join() inside the block of lines 71-74 and 132-135: the guard lives
\* to the end of the block.
join_block(l) == MutexDrop(MutexLock(l))

\* send_msg, lines 37-41: locks the channel, sends, and drops the guard on
\* return.
send_msg(l) == MutexDrop(MutexLock(l))

\* send_msg2 with the mutex taken again instead of the guard at hand.
send_msg2_locks(l) == MutexDrop(MutexLock(l))

\* send_msg2, lines 43-46: sends on the &mut Channel of the guard its
\* caller holds; the mutex is not touched.
send_msg2(l) == l

\* The fold sent `sends` with send_msg2, and the guard of line 80 or 140 is
\* dropped when the function ends.
FoldLock(l, sends, ends) ==
    LET after == IF sends # << >> THEN send_msg2(l) ELSE l
    IN  IF ends THEN MutexDrop(after) ELSE after

\* The producer sends the events `evts`.
PSend(evts) ==
    /\ pout' = pout \o evts
    /\ psentAt' = psentAt \o [i \in 1..Len(evts) |-> nReq']

\* produce(), lines 71-74: chan.join()
P_Join ==
    /\ ppc = "join"
    /\ nReq' = nReq
    /\ PSend(<< DefinedEvent("phx_join") >>)
    /\ plock' = join_block(plock)
    /\ ppc' = "announce"
    /\ UNCHANGED << sessionVars, consumerVars, serverVars, input, inPos, pstate,
                    ptoken, topic, pin, popen, presult, reads, pDelivered >>

\* produce() entering the fold without announcing its role.
P_Announce_skipped ==
    /\ ppc = "announce"
    /\ plock' = MutexLock(plock)
    /\ ppc' = "loop"
    /\ UNCHANGED << sessionVars, consumerVars, serverVars, input, inPos, pstate,
                    ptoken, topic, pin, popen, pout, presult, nReq, reads, psentAt,
                    pDelivered >>

\* produce(), lines 77-80: send_msg(&chan, "producer_join", "{}"), then
\* the buffers and chan.lock().unwrap() for the fold.
P_Announce ==
    /\ ppc = "announce"
    /\ nReq' = nReq
    /\ PSend(<< CustomEvent("producer_join", FromStr(EmptyObjectText)) >>)
    /\ plock' = MutexLock(send_msg(plock))
    /\ ppc' = "loop"
    /\ UNCHANGED << sessionVars, consumerVars, serverVars, input, inPos, pstate,
                    ptoken, topic, pin, popen, presult, reads, pDelivered >>

\* produce(), lines 82-110: the fold handles the next inbound event.
P_Handle ==
    /\ ppc = "loop"
    /\ pin # << >>
    /\ LET evt  == Head(pin)
           data == Drop(input, inPos)
       IN  \E rd \in IF ProducerReads(pstate, evt) THEN ReadOutcomes(Len(data))
                     ELSE {NoRead} :
             LET t == produce_fold(pstate, evt, rd, data)
             IN  /\ pstate' = t.state
                 /\ nReq' = IF evt.kind = "Custom" /\ evt.name = "bytes_requested"
                            THEN nReq + 1 ELSE nReq
                 /\ inPos' = IF t.read THEN inPos + rd.n ELSE inPos
                 /\ reads' = IF t.read
                             THEN Append(reads, [req |-> nReq', tag |-> rd.tag, n |-> rd.n,
                                                 was |-> evt.name])
                             ELSE reads
                 /\ PSend(t.sends)
                 /\ ppc' = IF t.halt THEN "returned" ELSE "loop"
                 /\ presult' = IF t.halt THEN Ok({}) ELSE presult
                 /\ plock' = FoldLock(plock, t.sends, t.halt)
    /\ pin' = Tail(pin)
    /\ UNCHANGED << sessionVars, consumerVars, serverVars, input, ptoken, topic,
                    popen, pDelivered >>

\* produce() passing on the end of the fold as an error when the event
\* sequence is exhausted.
P_Exhausted_fails ==
    /\ ppc = "loop"
    /\ pin = << >>
    /\ ~popen
    /\ ppc' = "returned"
    /\ presult' = RequestError
    /\ plock' = MutexDrop(plock)
    /\ UNCHANGED << sessionVars, consumerVars, serverVars, input, inPos, pstate,
                    ptoken, topic, pin, popen, pout, nReq, reads, psentAt, pDelivered >>

\* produce(), lines 112-117: the event sequence is exhausted (the
\* connection closed); the fold ends and produce() returns Ok(()).
P_Exhausted ==
    /\ ppc = "loop"
    /\ pin = << >>
    /\ ~popen
    /\ ppc' = "returned"
    /\ presult' = Ok({})
    /\ plock' = MutexDrop(plock)
    /\ UNCHANGED << sessionVars, consumerVars, serverVars, input, inPos, pstate,
                    ptoken, topic, pin, popen, pout, nReq, reads, psentAt, pDelivered >>

\* The events a peer may deliver to the producer.
ProducerInbound ==
    { CustomEvent("bytes_requested", EmptyObject),
      CustomEvent("consumer_join", EmptyObject),
      DefinedEvent("phx_reply") }

\* The environment delivers any event to the joined producer.
Env_P_Deliver ==
    /\ ppc \in {"announce", "loop", "returned"}
    /\ popen
    /\ Len(pin) < MaxQueue
    /\ pDelivered < MaxEvents
    /\ \E evt \in ProducerInbound : pin' = Append(pin, evt)
    /\ pDelivered' = pDelivered + 1
    /\ plock' = plock
    /\ UNCHANGED << sessionVars, consumerVars, serverVars, input, inPos, ppc, pstate,
                    ptoken, topic, popen, pout, presult, nReq, reads, psentAt >>

\* The connection of the producer closes.
Env_P_Close ==
    /\ ppc \in {"announce", "loop"}
    /\ popen
    /\ popen' = FALSE
    /\ UNCHANGED << sessionVars, consumerVars, serverVars, input, inPos, ppc, pstate,
                    ptoken, topic, pin, pout, presult, nReq, reads, psentAt, pDelivered, plock >>


(***************************************************************************)
(* streams.rs: the consumer.                                               *)
(***************************************************************************)
\* io::stdout().write(&decoded) of `len` bytes: an error, or Ok(n) with
\* n <= len bytes written (some of them, when there are any); the program
\* does not look at n.
WriteOutcomes(len) ==
    {[tag |-> "Err", n |-> 0]}
        \cup {[tag |-> "Ok", n |-> k] : k \in IF len = 0 THEN {0} ELSE 1..len}

NoWrite == [tag |-> "None", n |-> 0]

\* message.payload.get("data").unwrap().as_str().unwrap(), then
\* base64::decode(x).unwrap(): the decoded bytes, or a panic.
DecodePayload(payload) ==
    IF payload.t = "object" /\ payload.data = "string"
    THEN Base64Decode(payload.dataStr)
    ELSE [ok |-> FALSE, bytes |-> << >>]

\* The arm of the match that writes local output.
ConsumerWrites(state, evt) ==
    /\ state = "Consuming" /\ evt.kind = "Custom" /\ evt.name = "bytes"
    /\ DecodePayload(evt.payload).ok

\* One turn of the fold of consume(): the events it sends, the bytes it
\* hands to write and those written, whether it ends the fold and whether it
\* panics.
CTurn(state, sends, halt, panic, chunk, wrote) ==
    [state |-> state, sends |-> sends, halt |-> halt, panic |-> panic,
     chunk |-> chunk, wrote |-> wrote]

\* Variants of consume_fold with one slip each.
\* ... does not ask for the next chunk:
consume_fold_no_request(state, evt, wr) ==
    IF state = "Consuming" /\ evt.kind = "Custom" /\ evt.name = "bytes"
    THEN LET d == DecodePayload(evt.payload)
         IN  IF ~d.ok \/ wr.tag # "Ok"
             THEN CTurn(state, << >>, FALSE, TRUE, << >>, << >>)
             ELSE CTurn("Consuming", << >>, FALSE, FALSE, << d.bytes >>, Take(d.bytes, wr.n))
    ELSE IF state = "Consuming" /\ evt.kind = "Custom" /\ evt.name = "no_more_data"
    THEN CTurn(state, << >>, TRUE, FALSE, << >>, << >>)
    ELSE CTurn(state, << >>, FALSE, FALSE, << >>, << >>)

\* ... ignores no_more_data:
consume_fold_goes_on(state, evt, wr) ==
    IF state = "Consuming" /\ evt.kind = "Custom" /\ evt.name = "bytes"
    THEN LET d == DecodePayload(evt.payload)
         IN  IF ~d.ok \/ wr.tag # "Ok"
             THEN CTurn(state, << >>, FALSE, TRUE, << >>, << >>)
             ELSE CTurn("Consuming", << CustomEvent("request_bytes", FromStr(EmptyObjectText)) >>,
                        FALSE, FALSE, << d.bytes >>, Take(d.bytes, wr.n))
    ELSE CTurn(state, << >>, FALSE, FALSE, << >>, << >>)

\* ... skips a bytes event it cannot decode:
consume_fold_skips_malformed(state, evt, wr) ==
    IF state = "Consuming" /\ evt.kind = "Custom" /\ evt.name = "bytes"
    THEN LET d == DecodePayload(evt.payload)
         IN  IF ~d.ok
             THEN CTurn(state, << >>, FALSE, FALSE, << >>, << >>)
             ELSE IF wr.tag # "Ok"
             THEN CTurn(state, << >>, FALSE, TRUE, << >>, << >>)
             ELSE CTurn("Consuming", << CustomEvent("request_bytes", FromStr(EmptyObjectText)) >>,
                        FALSE, FALSE, << d.bytes >>, Take(d.bytes, wr.n))
    ELSE IF state = "Consuming" /\ evt.kind = "Custom" /\ evt.name = "no_more_data"
    THEN CTurn(state, << >>, TRUE, FALSE, << >>, << >>)
    ELSE CTurn(state, << >>, FALSE, FALSE, << >>, << >>)

consume_fold(state, evt, wr) ==
    IF state = "Consuming" /\ evt.kind = "Custom" /\ evt.name = "bytes"
    THEN LET d == DecodePayload(evt.payload)
         IN  IF ~d.ok \/ wr.tag # "Ok"
             THEN CTurn(state, << >>, FALSE, TRUE, << >>, << >>)
             ELSE CTurn("Consuming", << CustomEvent("request_bytes", FromStr(EmptyObjectText)) >>,
                        FALSE, FALSE, << d.bytes >>, Take(d.bytes, wr.n))
    ELSE IF state = "Consuming" /\ evt.kind = "Custom" /\ evt.name = "no_more_data"
    THEN CTurn(state, << >>, TRUE, FALSE, << >>, << >>)
    ELSE CTurn(state, << >>, FALSE, FALSE, << >>, << >>)

\* consume(), lines 124-125: the socket URL, then the token.
C_GetToken ==
    /\ cpc = "start"
    /\ IF get_token(config) = {}
       THEN /\ cpc' = "panicked"
            /\ cresult' = Panic
            /\ ctoken' = ctoken
       ELSE /\ cpc' = "connect"
            /\ ctoken' = get_token(config)
            /\ cresult' = cresult
    /\ UNCHANGED << sessionVars, producerVars, serverVars, cstate, cin, copen, cout,
                    output, written, nBytes, noMore, peerOk, cBytesIn, cDelivered, clock, cLast >>

\* consume(), lines 127-131: the connection is opened with the token.
C_Connect ==
    /\ cpc = "connect"
    /\ calls' = Append(calls,
           Call("connect", get_socket_url(config), ctoken, config, NoResponse, Ok({})))
    /\ copen' = TRUE
    /\ cpc' = "join"
    /\ UNCHANGED << file, config, cmd, mpc, mresult, caller, vres, shown, saves, producerVars,
                    serverVars, cstate, ctoken, cin, cout, cresult, output, written,
                    nBytes, noMore, peerOk, cBytesIn, cDelivered, clock, cLast >>

\* consume(), lines 132-135: chan.join()
C_Join ==
    /\ cpc = "join"
    /\ cout' = Append(cout, DefinedEvent("phx_join"))
    /\ clock' = join_block(clock)
    /\ cpc' = "announce"
    /\ UNCHANGED << sessionVars, producerVars, serverVars, cstate, ctoken, cin, copen,
                    cresult, output, written, nBytes, noMore, peerOk, cBytesIn,
                    cDelivered, cLast >>

\* consume(), line 137: send_msg(&chan, "consumer_join", "{}")
C_Announce ==
    /\ cpc = "announce"
    /\ cout' = Append(cout, CustomEvent("consumer_join", FromStr(EmptyObjectText)))
    /\ clock' = send_msg(clock)
    /\ cpc' = "request"
    /\ UNCHANGED << sessionVars, producerVars, serverVars, cstate, ctoken, cin, copen,
                    cresult, output, written, nBytes, noMore, peerOk, cBytesIn,
                    cDelivered, cLast >>

\* consume(), lines 138-140: send_msg(&chan, "request_bytes", "{}"), then
\* chan.lock().unwrap() for the fold.
C_Request ==
    /\ cpc = "request"
    /\ cout' = Append(cout, CustomEvent("request_bytes", FromStr(EmptyObjectText)))
    /\ clock' = MutexLock(send_msg(clock))
    /\ cpc' = "loop"
    /\ UNCHANGED << sessionVars, producerVars, serverVars, cstate, ctoken, cin, copen,
                    cresult, output, written, nBytes, noMore, peerOk, cBytesIn,
                    cDelivered, cLast >>

\* consume(), lines 142-159: the fold handles the next inbound event.
C_Handle ==
    /\ cpc = "loop"
    /\ cin # << >>
    /\ LET evt == Head(cin)
       IN  \E wr \in IF ConsumerWrites(cstate, evt)
                     THEN WriteOutcomes(Len(DecodePayload(evt.payload).bytes))
                     ELSE {NoWrite} :
             LET t == consume_fold(cstate, evt, wr)
             IN  /\ cstate' = t.state
                 /\ cout' = cout \o t.sends
                 /\ written' = written \o t.chunk
                 /\ output' = output \o t.wrote
                 /\ nBytes' = IF t.chunk # << >> THEN nBytes + 1 ELSE nBytes
                 /\ noMore' = (noMore \/ (cstate = "Consuming" /\ evt.kind = "Custom"
                                           /\ evt.name = "no_more_data"))
                 /\ cpc' = IF t.panic THEN "panicked"
                           ELSE IF t.halt THEN "returned" ELSE "loop"
                 /\ cresult' = IF t.panic THEN Panic
                               ELSE IF t.halt THEN Ok({}) ELSE cresult
                 /\ clock' = FoldLock(clock, t.sends, t.halt \/ t.panic)
    /\ cLast' = Head(cin)
    /\ cin' = Tail(cin)
    /\ UNCHANGED << sessionVars, producerVars, serverVars, ctoken, copen, peerOk,
                    cBytesIn, cDelivered >>

\* consume(), lines 161-166: the event sequence is exhausted; consume()
\* returns Ok(()).
C_Exhausted ==
    /\ cpc = "loop"
    /\ cin = << >>
    /\ ~copen
    /\ cpc' = "returned"
    /\ cresult' = Ok({})
    /\ clock' = MutexDrop(clock)
    /\ UNCHANGED << sessionVars, producerVars, serverVars, cstate, ctoken, cin, copen,
                    cout, output, written, nBytes, noMore, peerOk, cBytesIn, cDelivered,
                    cLast >>

\* How many events named `name` a sequence of events holds.
RECURSIVE Count(_, _)
Count(evts, name) ==
    IF evts = << >> THEN 0
    ELSE (IF Head(evts).kind = "Custom" /\ Head(evts).name = name THEN 1 ELSE 0)
            + Count(Tail(evts), name)

\* The chunks a peer may send to the consumer.
Chunks == { << 10 >>, << 255, 10 >> }

\* The events a peer may deliver to the consumer: well-formed bytes events,
\* malformed ones (no data field, data that is no string, data that is no
\* base64 text, the bare string the producer sends), the end, and others.
ConsumerInbound ==
    { CustomEvent("bytes", DataObject(Base64Encode(c))) : c \in Chunks }
        \cup { CustomEvent("bytes", EmptyObject),
               CustomEvent("bytes", BadDataObject),
               CustomEvent("bytes", DataObject(<< "C", "g", "=" >>)),
               CustomEvent("bytes", JString(Base64Encode(<< 10 >>))),
               CustomEvent("no_more_data", EmptyObject),
               CustomEvent("producer_join", EmptyObject),
               DefinedEvent("phx_reply") }

\* The environment delivers any event to the joined consumer.
Env_C_Deliver ==
    /\ cpc \in {"announce", "request", "loop", "returned"}
    /\ copen
    /\ Len(cin) < MaxQueue
    /\ cDelivered < MaxConsumerEvents
    /\ \E evt \in ConsumerInbound :
         /\ cin' = Append(cin, evt)
         /\ cBytesIn' = IF evt.name = "bytes" THEN cBytesIn + 1 ELSE cBytesIn
         /\ peerOk' = (peerOk /\ (evt.name = "bytes" =>
                                     cBytesIn < Count(cout, "request_bytes")))
    /\ cDelivered' = cDelivered + 1
    /\ clock' = clock
    /\ cLast' = cLast
    /\ UNCHANGED << sessionVars, producerVars, serverVars, cpc, cstate, ctoken, copen,
                    cout, cresult, output, written, nBytes, noMore >>

\* The connection of the consumer closes.
Env_C_Close ==
    /\ cpc \in {"announce", "request", "loop"}
    /\ copen
    /\ copen' = FALSE
    /\ UNCHANGED << sessionVars, producerVars, serverVars, cpc, cstate, ctoken, cin,
                    cout, cresult, output, written, nBytes, noMore, peerOk, cBytesIn,
                    cDelivered, clock, cLast >>


(***************************************************************************)
(* main.rs: start-up, the login handshake and the subcommands.             *)
(***************************************************************************)
main_DEFAULT_SCHEME == "https"

main_DEFAULT_HOST == "copypasta.gw.wepo.dk"

\* PastaClient::get_url of main.rs
main_get_url(cfg, path) ==
    IF cfg.some THEN [scheme |-> main_DEFAULT_SCHEME, host |-> cfg.host, path |-> path]
    ELSE [scheme |-> main_DEFAULT_SCHEME, host |-> main_DEFAULT_HOST, path |-> path]

Whitespace == {" ", "\n", "\t"}

RECURSIVE TrimStart(_)
TrimStart(s) ==
    IF s # << >> /\ Head(s) \in Whitespace THEN TrimStart(Tail(s)) ELSE s

RECURSIVE TrimEnd(_)
TrimEnd(s) ==
    IF s # << >> /\ Last(s) \in Whitespace THEN TrimEnd(Take(s, Len(s) - 1)) ELSE s

\* str::trim
Trim(s) == TrimEnd(TrimStart(s))

\* The lines a user may type at the token prompt.
PromptLines == { << "a", "\n" >>, << " ", "b", " ", "\n" >>, << "\n" >> }

\* The credential file: missing, unreadable as a ClientConfig, or a
\* ClientConfig.
MissingFile == [kind |-> "missing", token |-> << >>, host |-> ""]

CorruptFile == [kind |-> "corrupt", token |-> << >>, host |-> ""]

ConfigFile(cfg) == [kind |-> "config", token |-> cfg.token, host |-> cfg.host]

Files ==
    { MissingFile, CorruptFile,
      ConfigFile(SomeConfig(<< "a" >>, "pasta.example")),
      ConfigFile(SomeConfig(<< "z" >>, "pasta.example")) }

Commands == {"login", "list", "produce", "consume", "default"}

\* load_from_file treating a missing credential file as fatal.
load_from_file_missing_is_fatal(f) ==
    IF f.kind = "missing" THEN Panic
    ELSE IF f.kind = "corrupt" THEN Panic
    ELSE Ok({SomeConfig(f.token, f.host)})

\* ClientConfig::load_from_file
load_from_file(f) ==
    IF f.kind = "missing" THEN NoConfigFound
    ELSE IF f.kind = "corrupt" THEN Panic
    ELSE Ok({SomeConfig(f.token, f.host)})

\* PastaClient::save_config: the file it leaves and its result.
save_config(cfg, f) ==
    IF cfg.some THEN [file |-> ConfigFile(cfg), result |-> Ok({})]
    ELSE [file |-> f, result |-> NoToken]

\* main(), lines 49-51 and 65-78; get_app_if_configured; get_app, lines
\* 252-259: the credential file is loaded and the client built.
M_Load ==
    /\ mpc = "main"
    /\ LET l == load_from_file(file)
       IN  IF l.tag = "Ok"
           THEN /\ config' = CHOOSE c \in l.value : TRUE
                /\ caller' = "build_and_verify"
                /\ mpc' = "login1"
                /\ mresult' = mresult
           ELSE IF l.tag = "NoConfigFound" /\ cmd = "login"
           THEN /\ config' = NoConfig
                /\ caller' = "get_app"
                /\ mpc' = "login1"
                /\ mresult' = mresult
           ELSE /\ config' = config
                /\ caller' = caller
                /\ mpc' = IF l.tag = "Panic" THEN "panicked" ELSE "exit"
                /\ mresult' = l
    /\ UNCHANGED << file, calls, cmd, vres, shown, saves,
                    producerVars, consumerVars, serverVars >>

\* The session of main.rs issues the REST call `op`.
MainCall(op, resp) ==
    Call(op, main_get_url(config, Paths[op]), add_token(config), config, resp,
         rest_result(op, resp))

\* verify_login, lines 292-294 and 312: the first identity check.
M_Login1 ==
    /\ mpc = "login1"
    /\ \E resp \in Responses :
         LET r == rest_result("login", resp)
         IN  /\ calls' = Append(calls, MainCall("login", resp))
             /\ vres' = IF r.tag = "Ok" THEN Ok({FALSE}) ELSE r
             /\ mpc' = IF r.tag = "NotLoggedIn" THEN "prompt" ELSE "verified"
    /\ UNCHANGED << file, config, cmd, mresult, caller, shown, saves,
                    producerVars, consumerVars, serverVars >>

\* verify_login, lines 295-299, and prompt_token: the login URL is shown,
\* a line is read and the trimmed token installed with an empty host.
M_Prompt ==
    /\ mpc = "prompt"
    /\ shown' = Append(shown, vres.url)
    /\ \/ \E line \in PromptLines :
            /\ config' = SomeConfig(Trim(line), "")
            /\ mpc' = "login2"
            /\ mresult' = mresult
       \/ /\ config' = config
          /\ mpc' = "panicked"
          /\ mresult' = Panic
    /\ UNCHANGED << file, calls, cmd, caller, vres, saves,
                    producerVars, consumerVars, serverVars >>

\* verify_login prompting again when the retried identity check meets
\* another auth challenge.
M_Login2_prompts_again ==
    /\ mpc = "login2"
    /\ \E resp \in Responses :
         LET r == rest_result("login", resp)
         IN  /\ calls' = Append(calls, MainCall("login", resp))
             /\ vres' = IF r.tag = "Ok" THEN Ok({TRUE}) ELSE r
             /\ mpc' = IF r.tag = "NotLoggedIn" THEN "prompt" ELSE "verified"
    /\ UNCHANGED << file, config, cmd, mresult, caller, shown, saves,
                    producerVars, consumerVars, serverVars >>

\* verify_login, lines 301-310: the identity check with the new token.
M_Login2 ==
    /\ mpc = "login2"
    /\ \E resp \in Responses :
         LET r == rest_result("login", resp)
         IN  /\ calls' = Append(calls, MainCall("login", resp))
             /\ vres' = IF r.tag = "Ok" THEN Ok({TRUE}) ELSE r
             /\ mpc' = "verified"
    /\ UNCHANGED << file, config, cmd, mresult, caller, shown, saves,
                    producerVars, consumerVars, serverVars >>

\* build_and_verify returning the client without writing the credential
\* file.
build_and_verify_no_save(v, cfg, f) ==
    IF v.tag = "Ok" /\ v.value = {TRUE}
    THEN [result |-> Ok({}), file |-> f, saved |-> FALSE]
    ELSE IF v.tag = "Ok" THEN [result |-> LoginError, file |-> f, saved |-> FALSE]
    ELSE [result |-> v, file |-> f, saved |-> FALSE]

\* build_and_verify writing the credential file whatever verify_login
\* returned.
build_and_verify_saves_on_error(v, cfg, f) ==
    LET s == save_config(cfg, f)
    IN  IF v.tag = "Ok" /\ v.value = {TRUE}
        THEN IF s.result.tag = "Ok"
             THEN [result |-> Ok({}), file |-> s.file, saved |-> TRUE]
             ELSE [result |-> Panic, file |-> f, saved |-> FALSE]
        ELSE IF v.tag = "Ok"
        THEN [result |-> LoginError, file |-> f, saved |-> FALSE]
        ELSE [result |-> v, file |-> s.file, saved |-> s.result.tag = "Ok"]

\* build_and_verify, lines 283-288, and main(), lines 51-52 and 79: what
\* the caller makes of verify_login's result.
build_and_verify(v, cfg, f) ==
    IF v.tag = "Ok" /\ v.value = {TRUE}
    THEN LET s == save_config(cfg, f)
         IN  IF s.result.tag = "Ok"
             THEN [result |-> Ok({}), file |-> s.file, saved |-> TRUE]
             ELSE [result |-> Panic, file |-> f, saved |-> FALSE]
    ELSE IF v.tag = "Ok" THEN [result |-> LoginError, file |-> f, saved |-> FALSE]
    ELSE [result |-> v, file |-> f, saved |-> FALSE]

\* get_app, lines 257-266: verify_login(&mut new_app)?, then
\* save_config().unwrap().
get_app(v, cfg, f) ==
    IF v.tag = "Ok"
    THEN LET s == save_config(cfg, f)
         IN  IF s.result.tag = "Ok"
             THEN [result |-> Ok({}), file |-> s.file, saved |-> TRUE]
             ELSE [result |-> Panic, file |-> f, saved |-> FALSE]
    ELSE [result |-> v, file |-> f, saved |-> FALSE]

\* The caller of verify_login takes its result: main() goes on to the
\* subcommand, reports the error and ends, or panics.
M_Return ==
    /\ mpc = "verified"
    /\ LET b == IF caller = "get_app" THEN get_app(vres, config, file)
                ELSE build_and_verify(vres, config, file)
       IN  /\ file' = b.file
           /\ saves' = IF b.saved THEN saves + 1 ELSE saves
           /\ mresult' = b.result
           /\ mpc' = IF b.result.tag = "Panic" THEN "panicked"
                     ELSE IF caller = "get_app" THEN "exit"
                     ELSE IF b.result.tag = "Ok" THEN "ready"
                     ELSE "panicked"
    /\ UNCHANGED << config, calls, cmd, caller, vres, shown,
                    producerVars, consumerVars, serverVars >>

\* The token produce() and consume() of main.rs connect with.
main_stream_token == {<< "x", "x", "x" >>}

\* main(), lines 53-63: the subcommand runs. list and the default command
\* issue one REST call; login only reports.
M_Rest ==
    /\ mpc = "ready"
    /\ cmd \in {"list", "default"}
    /\ \E op \in IF cmd = "list" THEN {"list"} ELSE {"latest", "post"} :
         \E resp \in Responses :
            /\ calls' = Append(calls, MainCall(op, resp))
            /\ mresult' = rest_result(op, resp)
            /\ mpc' = IF rest_result(op, resp).tag # "Ok" /\ op # "latest"
                      THEN "panicked" ELSE "exit"
    /\ UNCHANGED << file, config, cmd, caller, vres, shown, saves,
                    producerVars, consumerVars, serverVars >>

M_AlreadyLoggedIn ==
    /\ mpc = "ready"
    /\ cmd = "login"
    /\ mpc' = "exit"
    /\ UNCHANGED << file, config, calls, cmd, mresult, caller, vres, shown, saves,
                    producerVars, consumerVars, serverVars >>

\* produce() and consume() of main.rs, lines 154-157 and 206-209: the
\* connection is opened with a fixed token.
M_StreamConnect ==
    /\ mpc = "ready"
    /\ cmd \in {"produce", "consume"}
    /\ calls' = Append(calls,
           Call("connect", get_socket_url(config), main_stream_token, config,
                NoResponse, Ok({})))
    /\ mpc' = "streaming"
    /\ UNCHANGED << file, config, cmd, mresult, caller, vres, shown, saves,
                    producerVars, consumerVars, serverVars >>

\* The session is handed to produce(client) of streams.rs.
M_Produce ==
    /\ mpc = "ready"
    /\ cmd = "produce"
    /\ ppc = "idle"
    /\ ppc' = "start"
    /\ mpc' = "streaming"
    /\ UNCHANGED << file, config, calls, cmd, mresult, caller, vres, shown, saves,
                    consumerVars, serverVars, input, inPos, pstate, ptoken, topic,
                    pin, popen, pout, presult, nReq, reads, psentAt, pDelivered, plock >>

\* The session is handed to consume(client, stream_name) of streams.rs.
M_Consume ==
    /\ mpc = "ready"
    /\ cmd = "consume"
    /\ cpc = "idle"
    /\ cpc' = "start"
    /\ mpc' = "streaming"
    /\ UNCHANGED << file, config, calls, cmd, mresult, caller, vres, shown, saves,
                    producerVars, serverVars, cstate, ctoken, cin, copen, cout,
                    cresult, output, written, nBytes, noMore, peerOk, cBytesIn,
                    cDelivered, clock, cLast >>


(***************************************************************************)
(* The relay server: the peer of a producer and a consumer joined to one   *)
(* topic. It passes each request_bytes on to the producer as               *)
(* bytes_requested, each chunk of the producer on to the consumer as       *)
(* bytes {data: chunk}, and done as no_more_data.                          *)
(***************************************************************************)
\* What the server sends in reply to an event of the producer:
\* [toProducer, toConsumer].
relay_producer_event(evt) ==
    IF evt.kind = "Defined"
    THEN [toProducer |-> << DefinedEvent("phx_reply") >>, toConsumer |-> << >>]
    ELSE IF evt.name = "bytes" /\ evt.payload.t = "string"
    THEN [toProducer |-> << >>,
          toConsumer |-> << CustomEvent("bytes", DataObject(evt.payload.str)) >>]
    ELSE IF evt.name = "done"
    THEN [toProducer |-> << >>,
          toConsumer |-> << CustomEvent("no_more_data", EmptyObject) >>]
    ELSE [toProducer |-> << >>, toConsumer |-> << >>]

S_FromProducer ==
    /\ srvP < Len(pout)
    /\ LET evt == pout[srvP + 1]
           r == relay_producer_event(evt)
       IN  /\ pin' = pin \o r.toProducer
           /\ cin' = cin \o r.toConsumer
           /\ cBytesIn' = cBytesIn + Count(r.toConsumer, "bytes")
           /\ srvDone' = (srvDone \/ (evt.kind = "Custom" /\ evt.name = "done"))
    /\ srvP' = srvP + 1
    /\ UNCHANGED << sessionVars, srvC, srvWaiting,
                    input, inPos, ppc, pstate, ptoken, topic, popen, pout, presult,
                    nReq, reads, psentAt, pDelivered, plock,
                    cpc, cstate, ctoken, copen, cout, cresult, output, written,
                    nBytes, noMore, peerOk, cDelivered, clock, cLast >>

S_FromConsumer ==
    /\ srvC < Len(cout)
    /\ LET evt == cout[srvC + 1]
       IN  /\ cin' = IF evt.kind = "Defined"
                     THEN Append(cin, DefinedEvent("phx_reply")) ELSE cin
           /\ srvWaiting' = IF evt.kind = "Custom" /\ evt.name = "request_bytes"
                            THEN srvWaiting + 1 ELSE srvWaiting
    /\ srvC' = srvC + 1
    /\ UNCHANGED << sessionVars, producerVars, srvP, srvDone,
                    cpc, cstate, ctoken, copen, cout, cresult, output, written,
                    nBytes, noMore, peerOk, cBytesIn, cDelivered, clock, cLast >>

\* A waiting request is passed on once the producer has announced itself.
S_Pull ==
    /\ srvWaiting > 0
    /\ ~srvDone
    /\ Count(Take(pout, srvP), "producer_join") > 0
    /\ pin' = Append(pin, CustomEvent("bytes_requested", EmptyObject))
    /\ srvWaiting' = srvWaiting - 1
    /\ UNCHANGED << sessionVars, consumerVars, srvP, srvC, srvDone,
                    input, inPos, ppc, pstate, ptoken, topic, popen, pout, presult,
                    nReq, reads, psentAt, pDelivered, plock >>

(***************************************************************************)
(* Initial states and specifications.                                      *)
(***************************************************************************)
\* The local inputs: every byte sequence of up to BufLen + 1 bytes, and of
\* every greater length the two sequences of alternating byte values.
Inputs ==
    SeqsUpTo(ByteValues, BufLen + 1)
        \cup { [i \in 1..n |-> IF i % 2 = first THEN 10 ELSE 255] :
                 n \in 0..MaxInputLen, first \in {0, 1} }

Credentials == SomeConfig(<< "a" >>, "pasta.example")

SessionIdle ==
    /\ file = MissingFile
    /\ calls = << >>
    /\ cmd = "none"
    /\ mpc = "idle"
    /\ mresult = Pending
    /\ caller = "none"
    /\ vres = Pending
    /\ shown = << >>
    /\ saves = 0

ProducerIdle ==
    /\ inPos = 0
    /\ pstate = "ReadyToProduce"
    /\ ptoken = {}
    /\ topic = << >>
    /\ pin = << >>
    /\ popen = FALSE
    /\ pout = << >>
    /\ presult = Pending
    /\ nReq = 0
    /\ reads = << >>
    /\ psentAt = << >>
    /\ pDelivered = 0
    /\ plock = "free"

ConsumerIdle ==
    /\ cstate = "Consuming"
    /\ ctoken = {}
    /\ cin = << >>
    /\ copen = FALSE
    /\ cout = << >>
    /\ cresult = Pending
    /\ output = << >>
    /\ written = << >>
    /\ nBytes = 0
    /\ noMore = FALSE
    /\ peerOk = TRUE
    /\ cBytesIn = 0
    /\ cDelivered = 0
    /\ clock = "free"
    /\ cLast = NoEvent

ServerIdle ==
    /\ srvP = 0
    /\ srvC = 0
    /\ srvWaiting = 0
    /\ srvDone = FALSE

\* produce(client) is called with a client with or without credentials and
\* any local input; the peer is free.
InitProducer ==
    /\ SessionIdle /\ ProducerIdle /\ ConsumerIdle /\ ServerIdle
    /\ config \in {NoConfig, Credentials}
    /\ input \in Inputs
    /\ ppc = "start"
    /\ cpc = "idle"

NextProducer ==
    \/ P_GetToken
    \/ P_CreateStream
    \/ P_Connect
    \/ P_Join
    \/ P_Announce
    \/ P_Handle
    \/ P_Exhausted
    \/ Env_P_Deliver
    \/ Env_P_Close

SpecProducer == InitProducer /\ [][NextProducer]_vars

\* consume(client, stream_name) is called; the peer is free.
InitConsumer ==
    /\ SessionIdle /\ ProducerIdle /\ ConsumerIdle /\ ServerIdle
    /\ config \in {NoConfig, Credentials}
    /\ input = << >>
    /\ ppc = "idle"
    /\ cpc = "start"

NextConsumer ==
    \/ C_GetToken
    \/ C_Connect
    \/ C_Join
    \/ C_Announce
    \/ C_Request
    \/ C_Handle
    \/ C_Exhausted
    \/ Env_C_Deliver
    \/ Env_C_Close

SpecConsumer == InitConsumer /\ [][NextConsumer]_vars

\* One run of the streaming client in either role, produce() or consume(),
\* against a free peer.
InitStream == InitProducer \/ InitConsumer

NextStream ==
    \/ P_GetToken
    \/ P_CreateStream
    \/ P_Connect
    \/ P_Join
    \/ P_Announce
    \/ P_Handle
    \/ P_Exhausted
    \/ Env_P_Deliver
    \/ Env_P_Close
    \/ C_GetToken
    \/ C_Connect
    \/ C_Join
    \/ C_Announce
    \/ C_Request
    \/ C_Handle
    \/ C_Exhausted
    \/ Env_C_Deliver
    \/ Env_C_Close

SpecStream == InitStream /\ [][NextStream]_vars

\* A peer of the producer that asks for bytes once after producer_join and
\* once after every bytes event.
Env_P_Pull ==
    /\ popen
    /\ Len(pout) >= 2
    /\ Count(pout, "done") = 0
    /\ pDelivered = Count(pout, "bytes")
    /\ pin' = Append(pin, CustomEvent("bytes_requested", EmptyObject))
    /\ pDelivered' = pDelivered + 1
    /\ UNCHANGED << sessionVars, consumerVars, serverVars, input, inPos, ppc, pstate,
                    ptoken, topic, popen, pout, presult, nReq, reads, psentAt, plock >>

\* produce(client) against that peer; the connection may close at any time.
\* The event loop (core.run) takes an event whenever one is there, and ends
\* the fold when the sequence is exhausted; the peer keeps asking.
NextPull ==
    \/ P_GetToken
    \/ P_CreateStream
    \/ P_Connect
    \/ P_Join
    \/ P_Announce
    \/ P_Handle
    \/ P_Exhausted
    \/ Env_P_Pull
    \/ Env_P_Close

SpecPull ==
    /\ InitProducer
    /\ [][NextPull]_vars
    /\ WF_vars(P_Handle)
    /\ WF_vars(P_Exhausted)
    /\ WF_vars(Env_P_Pull)

\* A producer and a consumer joined to one topic through the relay server.
InitRelay ==
    /\ SessionIdle /\ ProducerIdle /\ ConsumerIdle /\ ServerIdle
    /\ config = Credentials
    /\ input \in Inputs
    /\ ppc = "start"
    /\ cpc = "start"

NextRelay ==
    \/ P_GetToken
    \/ P_CreateStream
    \/ P_Connect
    \/ P_Join
    \/ P_Announce
    \/ P_Handle
    \/ C_GetToken
    \/ C_Connect
    \/ C_Join
    \/ C_Announce
    \/ C_Request
    \/ C_Handle
    \/ S_FromProducer
    \/ S_FromConsumer
    \/ S_Pull

SpecRelay == InitRelay /\ [][NextRelay]_vars

\* A run of the client: main() with any credential file and subcommand.
Init ==
    /\ ProducerIdle /\ ConsumerIdle /\ ServerIdle
    /\ file \in Files
    /\ cmd \in Commands
    /\ config = NoConfig
    /\ calls = << >>
    /\ mpc = "main"
    /\ mresult = Pending
    /\ caller = "none"
    /\ vres = Pending
    /\ shown = << >>
    /\ saves = 0
    /\ input = << >>
    /\ ppc = "idle"
    /\ cpc = "idle"

Next ==
    \/ M_Load
    \/ M_Login1
    \/ M_Prompt
    \/ M_Login2
    \/ M_Return
    \/ M_Rest
    \/ M_AlreadyLoggedIn
    \/ M_StreamConnect
    \/ M_Produce
    \/ M_Consume
    \/ P_GetToken
    \/ P_CreateStream
    \/ P_Connect
    \/ C_GetToken
    \/ C_Connect

Spec == Init /\ [][Next]_vars


(***************************************************************************)
(* Properties.                                                             *)
(***************************************************************************)
IsCustom(evt, name) == evt.kind = "Custom" /\ evt.name = name

BytesEvents(evts) == SelectSeq(evts, LAMBDA e : IsCustom(e, "bytes"))

\* The input bytes a bytes event of the producer carries.
ChunkOf(evt) == Base64Decode(evt.payload.str).bytes

RECURSIVE Concat(_)
Concat(ss) == IF ss = << >> THEN << >> ELSE Head(ss) \o Concat(Tail(ss))

\* The input bytes carried by the bytes events of the producer so far.
Carried == Concat([i \in 1..Len(BytesEvents(pout)) |-> ChunkOf(BytesEvents(pout)[i])])

NoReadFailed == \A i \in 1..Len(reads) : reads[i].tag = "Ok"

ReadEof == \E i \in 1..Len(reads) : reads[i].tag = "Ok" /\ reads[i].n = 0

ReadFailed == \E i \in 1..Len(reads) : reads[i].tag = "Err"

\* C1: round trip. When the consumer has returned after a run through the
\* relay in which no read of local input failed, its local output is the
\* producer's input; and no bytes event carries more than BufLen bytes.
C1_RoundTrip ==
    /\ (cpc = "returned" /\ NoReadFailed) => output = input
    /\ \A i \in 1..Len(pout) :
         IsCustom(pout[i], "bytes") => Len(ChunkOf(pout[i])) <= BufLen

\* C2: producer flow control. The producer has sent no more bytes events
\* than it has handled bytes_requested events, each bytes event answers a
\* bytes_requested of its own (so there is none before the first and at most
\* one between two), and every read of local input was made while handling
\* a bytes_requested, one read for each.
C2_ProducerFlowControl ==
    /\ Len(BytesEvents(pout)) <= nReq
    /\ \A i \in 1..Len(pout) :
         IsCustom(pout[i], "bytes") =>
            /\ psentAt[i] >= 1
            /\ \A j \in 1..Len(pout) :
                 (j # i /\ IsCustom(pout[j], "bytes")) => psentAt[j] # psentAt[i]
    /\ Len(reads) <= nReq
    /\ \A i \in 1..Len(reads) :
         /\ reads[i].was = "bytes_requested"
         /\ \A j \in 1..Len(reads) : j # i => reads[j].req # reads[i].req

\* The producer answered two requests with bytes while other events
\* arrived in between.
C2_Witness ==
    /\ Len(BytesEvents(pout)) >= 2
    /\ nReq >= 2
    /\ pDelivered > nReq + Len(pin)

\* C3: consumer flow control. Once its set-up is over the consumer has sent
\* one request_bytes more than it has handled bytes events, and none before;
\* and while the peer sends no bytes event without a request for it, at most
\* one bytes event waits in the inbound sequence.
C3_ConsumerFlowControl ==
    /\ Count(cout, "request_bytes") =
          IF cpc \in {"loop", "returned"} \/ (cpc = "panicked" /\ cout # << >>)
          THEN 1 + nBytes ELSE 0
    /\ peerOk => Count(cin, "bytes") <= 1

C3_Witness ==
    /\ cpc = "loop"
    /\ nBytes >= 2
    /\ peerOk
    /\ Count(cin, "bytes") = 1

\* C4: once a read of local input has returned 0 bytes, the producer has
\* sent exactly one done event, with the payload {}, as its last event, and
\* its loop is over, whatever has arrived since.
C4_EofDone ==
    ReadEof =>
        /\ Count(pout, "done") = 1
        /\ Last(pout) = CustomEvent("done", EmptyObject)
        /\ ppc = "returned"
        /\ Len(reads) = Len(BytesEvents(pout)) + 1

\* The end of input was read after a chunk, and events have arrived since.
C4_Witness ==
    /\ ReadEof
    /\ Len(BytesEvents(pout)) >= 1
    /\ \E i \in 1..Len(pin) : IsCustom(pin[i], "bytes_requested")

\* C5: once a read of local input has failed, the producer has sent exactly
\* one done event, with the payload {error: true}, as its last event, and
\* its loop is over, whatever has arrived since.
C5_ReadErrorDone ==
    ReadFailed =>
        /\ Count(pout, "done") = 1
        /\ Last(pout) = CustomEvent("done", ErrorObject)
        /\ ppc = "returned"
        /\ Len(reads) = Len(BytesEvents(pout)) + 1

C5_Witness ==
    /\ ReadFailed
    /\ Len(BytesEvents(pout)) >= 1
    /\ \E i \in 1..Len(pin) : IsCustom(pin[i], "bytes_requested")

\* C6: once the consumer in state Consuming has handled no_more_data, its
\* loop is over, and from then on it sends nothing and writes nothing.
C6_NoMoreDataHalts ==
    /\ [](noMore => cpc = "returned")
    /\ [][noMore => (cout' = cout /\ output' = output /\ written' = written)]_vars

\* no_more_data was handled with a well-formed bytes event behind it.
C6_Witness ==
    /\ noMore
    /\ \E i \in 1..Len(cin) : ConsumerWrites("Consuming", cin[i])

\* The sizes of the chunks the producer has sent.
ChunkSizes == [i \in 1..Len(BytesEvents(pout)) |-> Len(ChunkOf(BytesEvents(pout)[i]))]

CeilDiv(a, b) == (a + b - 1) \div b

\* The producer has sent done {} after reads that all succeeded.
CleanEnd == ppc = "returned" /\ ReadEof

\* The sizes of the chunks of an input of length len read in full buffers.
FullSizes(len) ==
    [i \in 1..CeilDiv(len, BufLen) |->
        IF i < CeilDiv(len, BufLen) THEN BufLen ELSE len - BufLen * (i - 1)]

\* C7 as stated: at the clean end of an input of length L the producer has
\* sent ceil(L / BufLen) bytes events, all of BufLen bytes but the last.
C7_ExactChunks == CleanEnd => ChunkSizes = FullSizes(Len(input))

\* Every read returned as many bytes as the buffer holds or the input has
\* left.
RECURSIVE ReadsFull(_, _)
ReadsFull(rs, remaining) ==
    IF rs = << >> THEN TRUE
    ELSE /\ Head(rs).n = Min(remaining, BufLen)
         /\ ReadsFull(Tail(rs), remaining - Head(rs).n)

\* C7, amended: at the clean end of an input of length L the bytes events
\* carry the L input bytes in order, each between 1 and BufLen bytes, so
\* there are at least ceil(L / BufLen) of them, followed by done {}; they are
\* exactly ceil(L / BufLen), all of BufLen bytes but the last, when every
\* read filled the buffer as far as input was left.
C7_Chunks ==
    CleanEnd =>
        /\ Carried = input
        /\ \A i \in 1..Len(ChunkSizes) : ChunkSizes[i] \in 1..BufLen
        /\ Len(ChunkSizes) >= CeilDiv(Len(input), BufLen)
        /\ Last(pout) = CustomEvent("done", EmptyObject)
        /\ ReadsFull(reads, Len(input)) => ChunkSizes = FullSizes(Len(input))

\* Two and a half buffers of input went out in three chunks.
C7_Witness ==
    /\ CleanEnd
    /\ Len(input) = 2 * BufLen + BufLen \div 2
    /\ ChunkSizes = << BufLen, BufLen, BufLen \div 2 >>

\* The calls of the session that are REST calls.
RestCalls == SelectSeq(calls, LAMBDA c : c.op \in RestOps)

\* C8: a start-up with a credential file whose token the identity check
\* accepts ends without an error, with the session ready for the subcommand,
\* and no login URL was shown.
C8_ValidTokenStartup ==
    (/\ caller = "build_and_verify"
     /\ Len(calls) >= 1
     /\ calls[1].result.tag = "Ok"
     /\ mpc \notin {"login1", "verified"})
        => /\ mpc \in {"ready", "streaming", "exit"}
           /\ mresult.tag \notin {"LoginError", "Panic"}
           /\ shown = << >>

\* C9 as stated: the outcome of a REST call is decided by the transport and
\* the status alone, and a 403 always gives NotLoggedIn with a non-empty URL.
C9_StatusDecides ==
    \A i \in 1..Len(RestCalls) :
        LET c == RestCalls[i]
        IN  IF c.resp.transport = "fail" THEN c.result = RequestError
            ELSE IF c.resp.status = 200 THEN c.result.tag = "Ok"
            ELSE IF c.resp.status = 403
                 THEN c.result.tag = "NotLoggedIn" /\ c.result.url # ""
            ELSE c.result = ServerError(c.resp.status)

\* C9, amended: a transport failure gives RequestError; status 200 gives
\* success when the body decodes to the document the call expects and
\* RequestError when it does not; status 403 gives NotLoggedIn with the
\* login_url of the body, as it is, when the body has one and RequestError
\* when it has none, never ServerError and never success; any other status
\* gives ServerError(status).
C9_Outcomes ==
    \A i \in 1..Len(RestCalls) :
        LET c == RestCalls[i]
            field == Decodes[c.op]
        IN  IF c.resp.transport = "fail" THEN c.result = RequestError
            ELSE IF c.resp.status = 200
                 THEN IF field = "" THEN c.result = Ok({})
                      ELSE IF c.resp.body[field] # {} THEN c.result = Ok(c.resp.body[field])
                      ELSE c.result = RequestError
            ELSE IF c.resp.status = 403
                 THEN IF c.resp.body.login_url # {}
                      THEN /\ c.result.tag = "NotLoggedIn"
                           /\ c.result.url \in c.resp.body.login_url
                      ELSE c.result = RequestError
            ELSE c.result = ServerError(c.resp.status)

\* A 403 with a login URL was surfaced as the challenge, and a later call
\* succeeded.
C9_Witness ==
    \E i, j \in 1..Len(RestCalls) :
        /\ i < j
        /\ RestCalls[i].resp.status = 403
        /\ RestCalls[i].result = NotLoggedIn("https://x/auth")
        /\ RestCalls[j].result.tag = "Ok"
        /\ RestCalls[j].op # "login"

\* C10: every outbound call carried the token of the credentials installed
\* when it was made, and none when none were installed.
C10_TokenOnEveryCall ==
    \A i \in 1..Len(calls) : calls[i].auth = calls[i].installed

\* The caller of verify_login has taken its result: start-up is over.
FlowEnded == mpc \in {"ready", "streaming", "exit", "panicked"}

\* verify_login was entered and its caller has taken its result.
HandshakeEnded == FlowEnded /\ caller # "none"

RetryFailed ==
    /\ Len(calls) >= 2
    /\ calls[1].op = "login" /\ calls[1].result.tag = "NotLoggedIn"
    /\ calls[2].op = "login" /\ calls[2].result.tag # "Ok"

\* The tokens verify_login can install from a prompted line.
PromptedTokens == { Trim(line) : line \in PromptLines }

\* C12: when the identity check that follows the installation of the
\* prompted token fails, verify_login returns that check's error, its
\* caller passes the error on, the prompted credentials stay installed in
\* the session, and the credential file is left as it was: save_config is
\* not called.
C12_FailedRetryKeepsFile ==
    /\ [](RetryFailed
            => /\ vres = calls[2].result
               /\ vres.tag \in {"NotLoggedIn", "ServerError", "RequestError"}
               /\ mpc \in {"verified", "exit", "panicked"}
               /\ mpc # "verified" => mresult = vres
               /\ config.some /\ config.host = ""
               /\ config.token \in PromptedTokens
               /\ calls[2].installed = {config.token}
               /\ saves = 0)
    /\ [][RetryFailed => (file' = file /\ config' = config
                          /\ saves' = saves /\ calls' = calls)]_vars

\* The retried identity check met a second auth challenge, the error was
\* returned through build_and_verify, and the credential file still holds
\* the token that was loaded.
C12_Witness ==
    /\ RetryFailed
    /\ mpc = "panicked"
    /\ caller = "build_and_verify"
    /\ mresult.tag = "NotLoggedIn"
    /\ config.token = << "b" >>
    /\ file = ConfigFile(SomeConfig(<< "a" >>, "pasta.example"))

\* C13 as stated: a missing credential file starts the login handshake
\* whatever the subcommand.
C13_HandshakeWhateverCommand ==
    (file = MissingFile /\ mpc # "main") => caller = "get_app"

\* C13: a missing credential file is not fatal to the load.  With the
\* login subcommand main() enters get_app and the login handshake starts
\* with an identity check that carries no token; with any other subcommand
\* main() ends at once with the advice to log in: no call is made, no
\* login URL is shown, nothing is installed or written.
C13_LoginCommandStartsHandshake ==
    /\ (file = MissingFile /\ mpc # "main" /\ cmd = "login")
         => /\ caller = "get_app"
            /\ mpc = "login1" \/ Len(calls) >= 1
            /\ Len(calls) >= 1
                 => (calls[1].op = "login" /\ calls[1].auth = {})
            /\ mpc = "panicked" => Len(calls) >= 1
    /\ (file = MissingFile /\ mpc # "main" /\ cmd # "login")
         => /\ mpc = "exit"
            /\ mresult = NoConfigFound
            /\ caller = "none"
            /\ calls = << >> /\ shown = << >>
            /\ config = NoConfig /\ saves = 0
    /\ caller = "get_app" => cmd = "login"

\* The handshake started from a missing credential file: the login URL was
\* shown, a token read and the identity check retried.
C13_Witness ==
    /\ file = MissingFile
    /\ cmd = "login"
    /\ caller = "get_app"
    /\ shown # << >>
    /\ Len(calls) = 2
    /\ calls[2].op = "login"

\* The identity checks (GET /api) among the calls made so far.
LoginCalls == SelectSeq(calls, LAMBDA c : c.op = "login")

\* The retried identity check succeeded.
RetrySucceeded ==
    /\ Len(calls) >= 2
    /\ calls[1].op = "login" /\ calls[1].result.tag = "NotLoggedIn"
    /\ calls[2].op = "login" /\ calls[2].result.tag = "Ok"

\* C14: verify_login has no retry loop.  One invocation makes at most two
\* identity checks and shows at most one token prompt, each position of
\* the handshake being reached with a fixed number of both, and it ends
\* after the second check; when the check after the prompt succeeds
\* verify_login returns Ok(true), not the auth challenge.
C14_NoRetryLoop ==
    /\ Len(LoginCalls) <= 2
    /\ Len(shown) <= 1
    /\ mpc = "login1" => (calls = << >> /\ shown = << >>)
    /\ mpc = "prompt" => (Len(calls) = 1 /\ shown = << >>
                          /\ vres.tag = "NotLoggedIn")
    /\ mpc = "login2" => (Len(calls) = 1 /\ Len(shown) = 1)
    /\ mpc = "verified" => (Len(calls) = 1 + Len(shown))
    /\ Len(LoginCalls) = 2 => mpc \notin {"login1", "prompt", "login2"}
    /\ shown # << >> => shown = << calls[1].result.url >>
    /\ RetrySucceeded
         => /\ vres = Ok({TRUE})
            /\ mpc \in {"verified", "ready", "streaming", "exit", "panicked"}
            /\ mpc = "ready" => mresult.tag = "Ok"

\* verify_login showed the login URL, read a token, and its second
\* identity check succeeded.
C14_Witness ==
    /\ RetrySucceeded
    /\ mpc = "verified"
    /\ vres = Ok({TRUE})
    /\ Len(shown) = 1
    /\ Len(calls) = 2

\* The fold of produce() takes the next inbound event in this step.
ProducerTakes == pin # << >> /\ pin' = Tail(pin)

\* The fold of consume() takes the next inbound event in this step.
ConsumerTakes == cin # << >> /\ cin' = Tail(cin)

ProducerJoin == CustomEvent("producer_join", FromStr(EmptyObjectText))

ConsumerJoin == CustomEvent("consumer_join", FromStr(EmptyObjectText))

RequestBytes == CustomEvent("request_bytes", FromStr(EmptyObjectText))

\* The producer has joined and announced its role, and only then sent
\* bytes and done events.
ProducerAnnounced ==
    /\ Len(pout) >= 2
    /\ pout[1] = DefinedEvent("phx_join")
    /\ pout[2] = ProducerJoin
    /\ \A i \in 3..Len(pout) : IsCustom(pout[i], "bytes") \/ IsCustom(pout[i], "done")

\* The consumer has joined, announced its role and asked for the first
\* chunk, and only then sent further request_bytes events.
ConsumerAnnounced ==
    /\ Len(cout) >= 3
    /\ cout[1] = DefinedEvent("phx_join")
    /\ cout[2] = ConsumerJoin
    /\ cout[3] = RequestBytes
    /\ \A i \in 4..Len(cout) : cout[i] = RequestBytes

\* C15: the producer sends the join of the topic, then producer_join, and
\* only then takes inbound events and sends bytes or done; the consumer
\* sends the join, then consumer_join, then one request_bytes, and only then
\* takes inbound events; nothing else is sent before or in between.
C15_AnnouncementOrder ==
    /\ [](/\ ppc \in {"idle", "start", "create_stream", "connect", "join"}
               => pout = << >>
          /\ ppc = "announce" => pout = << DefinedEvent("phx_join") >>
          /\ ppc \in {"loop", "returned"} /\ pout # << >> => ProducerAnnounced
          /\ ppc = "loop" /\ nReq = 0 => Len(pout) = 2
          /\ cpc \in {"idle", "start", "connect", "join"} => cout = << >>
          /\ cpc = "announce" => cout = << DefinedEvent("phx_join") >>
          /\ cpc = "request" => cout = << DefinedEvent("phx_join"), ConsumerJoin >>
          /\ cpc \in {"loop", "returned"} => ConsumerAnnounced
          /\ cLast = NoEvent => Len(cout) <= 3)
    /\ [][ProducerTakes => (ppc = "loop" /\ ProducerAnnounced)]_vars
    /\ [][ConsumerTakes => (cpc = "loop" /\ ConsumerAnnounced)]_vars

\* Both roles announced themselves, took inbound events and went on: the
\* producer sent a bytes event, the consumer a second request_bytes.
C15_Witness ==
    /\ ProducerAnnounced /\ Len(pout) >= 3 /\ IsCustom(pout[3], "bytes")
    /\ ConsumerAnnounced /\ Len(cout) >= 4
    /\ cLast # NoEvent

\* C16: the bytes on the consumer's local output are the concatenation, in
\* arrival order, of the whole decoded payloads of the bytes events the
\* fold has handled, and a request_bytes follows each of them only when its
\* whole chunk is on the output.
C16_OutputIsWhatArrived ==
    /\ output = Concat(written)
    /\ Count(cout, "request_bytes") > 0
         => Count(cout, "request_bytes") = 1 + Len(written)

\* A bytes event whose payload has no data field, a data field that is no
\* string, or one that is no base64 text.
Malformed(evt) == IsCustom(evt, "bytes") /\ ~DecodePayload(evt.payload).ok

\* C17: a malformed bytes event aborts the transfer.  The step that takes
\* it panics and writes nothing, hands nothing to write and sends nothing;
\* from then on consume() stands panicked: no request_bytes is sent, nothing
\* is written and no later event is taken.
C17_MalformedAborts ==
    /\ [](Malformed(cLast) => (cpc = "panicked" /\ cresult = Panic))
    /\ [][(ConsumerTakes /\ Malformed(Head(cin)))
            => /\ cpc' = "panicked"
               /\ cLast' = Head(cin)
               /\ output' = output /\ written' = written /\ cout' = cout]_vars
    /\ [][Malformed(cLast)
            => /\ ~ConsumerTakes
               /\ cLast' = cLast
               /\ output' = output /\ written' = written /\ cout' = cout]_vars

\* After a chunk was written a malformed bytes event was taken, and a later
\* event is left in the sequence, never to be taken.
C17_Witness ==
    /\ Malformed(cLast)
    /\ cpc = "panicked"
    /\ nBytes >= 1
    /\ cin # << >>
    /\ Count(cout, "request_bytes") = 1 + nBytes

\* C18: an inbound event other than bytes_requested taken by the fold of
\* produce() causes no read of local input, no outbound event and no change
\* of state: the fold goes on as it stood.  An inbound event other than
\* bytes and no_more_data taken by the fold of consume() causes no write to
\* local output, no outbound event and no change of state.
C18_IgnoredEventsChangeNothing ==
    /\ [][(ProducerTakes /\ ~IsCustom(Head(pin), "bytes_requested"))
            => /\ inPos' = inPos /\ reads' = reads
               /\ pout' = pout /\ psentAt' = psentAt
               /\ pstate' = pstate /\ nReq' = nReq
               /\ ppc' = ppc /\ presult' = presult /\ plock' = plock]_vars
    /\ [][(ConsumerTakes /\ ~IsCustom(Head(cin), "bytes")
                         /\ ~IsCustom(Head(cin), "no_more_data"))
            => /\ output' = output /\ written' = written
               /\ cout' = cout
               /\ cstate' = cstate /\ nBytes' = nBytes /\ noMore' = noMore
               /\ cpc' = cpc /\ cresult' = cresult /\ clock' = clock]_vars

\* The consumer took a custom event that is neither bytes nor no_more_data
\* after a chunk, and stands in its loop with one request_bytes per chunk
\* and the initial one.
C18_Witness ==
    /\ cLast = CustomEvent("producer_join", EmptyObject)
    /\ cpc = "loop"
    /\ nBytes >= 1
    /\ Count(cout, "request_bytes") = 1 + nBytes
    /\ Len(written) = nBytes

\* The producer sent done, once and as its last event.
DoneSent == Count(pout, "done") = 1 /\ IsCustom(Last(pout), "done")

\* The inbound event sequence of the producer is exhausted.
ProducerExhausted == ~popen /\ pin = << >>

\* C19: the fold of produce() ends when done has been sent or the inbound
\* event sequence is exhausted, and only then; it stands in its loop only
\* while no done has been sent, and after done it takes no event, reads
\* nothing and sends nothing.  Against a peer that asks for bytes after
\* producer_join and after every bytes event, a producer in its loop ends
\* the loop: with done sent when the connection stays open, and by
\* exhaustion at the latest when it closes.
C19_ProducerTermination ==
    /\ [](Count(pout, "done") >= 1 => (DoneSent /\ ppc = "returned"))
    /\ []((ppc = "returned" /\ Len(pout) >= 2) => (DoneSent \/ ProducerExhausted))
    /\ []((ppc = "returned" /\ Len(pout) >= 2 /\ popen) => DoneSent)
    /\ [][Count(pout, "done") >= 1
            => (~ProducerTakes /\ pout' = pout /\ inPos' = inPos
                /\ reads' = reads /\ ppc' = ppc)]_vars
    /\ [][(ppc = "loop" /\ ppc' # "loop")
            => (ppc' = "returned" /\ presult' = Ok({})
                /\ (Count(pout', "done") = 1 \/ ProducerExhausted))]_vars
    /\ (ppc = "loop") ~> (ppc = "returned" /\ (DoneSent \/ ProducerExhausted))
    /\ (ppc = "loop") ~> (~popen \/ (ppc = "returned" /\ DoneSent))

\* An input longer than the buffer was read to its end over an open
\* connection: the last read returned Ok(0), done was sent and produce()
\* returned.
C19_Witness ==
    /\ ppc = "returned"
    /\ popen
    /\ DoneSent
    /\ Len(input) > BufLen
    /\ inPos = Len(input)
    /\ reads # << >> /\ Last(reads).tag = "Ok" /\ Last(reads).n = 0
    /\ Count(pout, "bytes") >= 2

\* C20: the mutex of the topic handle is never locked by a thread that
\* holds it.  Each setup step (the join, the role announcement, the
\* consumer's first request_bytes) finds it free and leaves it free; the
\* fold takes it last and holds it for as long as the loop runs, so the
\* mutex is held exactly while the function stands in its loop, and every
\* event sent after the setup is sent by a step of the fold, which takes an
\* inbound event, with the mutex held.
C20_TopicLock ==
    /\ [](plock \in {"free", "held"} /\ clock \in {"free", "held"})
    /\ [](plock = "held" <=> ppc = "loop")
    /\ [](clock = "held" <=> cpc = "loop")
    /\ [][(pout' # pout /\ Len(pout) < 2)
            => /\ plock = "free"
               /\ ~ProducerTakes
               /\ plock' = IF ppc' = "loop" THEN "held" ELSE "free"]_vars
    /\ [][(pout' # pout /\ Len(pout) >= 2)
            => (plock = "held" /\ ppc = "loop" /\ ProducerTakes)]_vars
    /\ [][(cout' # cout /\ Len(cout) < 3)
            => /\ clock = "free"
               /\ ~ConsumerTakes
               /\ clock' = IF cpc' = "loop" THEN "held" ELSE "free"]_vars
    /\ [][(cout' # cout /\ Len(cout) >= 3)
            => (clock = "held" /\ cpc = "loop" /\ ConsumerTakes)]_vars

\* The fold of produce() sent a bytes event and done with the mutex held,
\* and the mutex is free again after produce() returned.
C20_Witness ==
    /\ ppc = "returned"
    /\ plock = "free"
    /\ DoneSent
    /\ Count(pout, "bytes") >= 1
    /\ Len(pout) >= 4

\* produce() is running or has run.
Producing == ppc # "idle"

\* create_stream was called and failed.
CreateStreamFailed ==
    /\ Producing
    /\ Len(calls) >= 1
    /\ calls[1].op = "create_stream"
    /\ calls[1].result.tag # "Ok"

\* C21: produce() has its token before it calls create_stream and a
\* successful create_stream before it opens the connection; when
\* create_stream fails produce() returns its error and nothing else
\* happens: no connection, no join, no event sent; and the topic of the
\* channel that is joined is "streams:" followed by the name in the
\* server's reply, from the connection on to the end.
C21_ProducerSetupOrder ==
    /\ []((Producing /\ calls # << >>)
            => (ptoken # {} /\ calls[1].op = "create_stream"
                /\ calls[1].auth = ptoken))
    /\ []((Producing /\ ppc = "panicked")
            => (calls = << >> /\ pout = << >> /\ ~popen /\ topic = << >>))
    /\ []((Producing /\ (Len(calls) >= 2 \/ popen \/ pout # << >>))
            => /\ Len(calls) = 2
               /\ calls[2].op = "connect"
               /\ calls[2].auth = ptoken
               /\ calls[1].result.tag = "Ok"
               /\ calls[1].resp.status = 200
               /\ calls[1].resp.body.name # {}
               /\ topic = << "streams:", CHOOSE n \in calls[1].resp.body.name : TRUE >>)
    /\ [](CreateStreamFailed
            => /\ ppc = "returned"
               /\ presult = calls[1].result
               /\ presult.tag \in {"NotLoggedIn", "ServerError", "RequestError"}
               /\ Len(calls) = 1
               /\ ~popen /\ pout = << >> /\ pin = << >>
               /\ topic = << >> /\ plock = "free")
    /\ [][CreateStreamFailed => (calls' = calls /\ pout' = pout /\ popen' = popen)]_vars
    /\ [][topic # << >> => topic' = topic]_vars

\* The server named the stream s2, and the producer has connected, joined
\* the topic streams:s2 and announced itself.
C21_Witness ==
    /\ ppc = "loop"
    /\ topic = << "streams:", "s2" >>
    /\ Len(calls) = 2
    /\ calls[1].resp.body = OtherStreamBody
    /\ Len(pout) = 2

\* Result<(), HeyError> is an Err.
IsHeyError(r) ==
    r.tag \in {"NotLoggedIn", "ServerError", "RequestError", "LoginError",
               "NoConfigFound", "NoToken"}

\* C22: once the topic is joined produce() and consume() return Ok(())
\* whenever they return, however the fold ended: in the producer on done
\* after the end of input, on done with the error flag after a failed read,
\* or on exhaustion of the event sequence, where no done is sent; in the
\* consumer on no_more_data or on exhaustion.  The only other way out of
\* the fold is a panic of the consumer, which returns nothing.  A HeyError
\* is returned only when nothing was connected, joined or sent.
C22_OkOnceJoined ==
    /\ []((ppc = "returned" /\ pout # << >>) => presult = Ok({}))
    /\ []((cpc = "returned" /\ cout # << >>) => cresult = Ok({}))
    /\ [](IsHeyError(presult)
            => (ppc = "returned" /\ pout = << >> /\ ~popen
                /\ \A i \in 1..Len(calls) : calls[i].op # "connect"))
    /\ [](~IsHeyError(cresult))
    /\ [][(ppc = "loop" /\ ppc' # "loop")
            => /\ ppc' = "returned" /\ presult' = Ok({})
               /\ \/ /\ ProducerTakes
                     /\ Len(reads') = Len(reads) + 1
                     /\ \/ /\ Last(reads').tag = "Ok" /\ Last(reads').n = 0
                           /\ pout' = Append(pout, CustomEvent("done", FromStr(EmptyObjectText)))
                        \/ /\ Last(reads').tag = "Err"
                           /\ pout' = Append(pout, CustomEvent("done", FromStr(ErrorObjectText)))
                  \/ /\ ProducerExhausted
                     /\ pout' = pout
                     /\ Count(pout, "done") = 0]_vars
    /\ [][(cpc = "loop" /\ cpc' # "loop")
            => \/ /\ cpc' = "returned" /\ cresult' = Ok({})
                  /\ cout' = cout
                  /\ \/ ConsumerTakes /\ IsCustom(Head(cin), "no_more_data")
                     \/ ~copen /\ cin = << >>
               \/ /\ cpc' = "panicked" /\ cresult' = Panic
                  /\ ConsumerTakes /\ IsCustom(Head(cin), "bytes")]_vars

\* The connection dropped after the producer had sent a chunk: the fold
\* ended by exhaustion, no done was sent, and produce() returned Ok(()).
C22_Witness ==
    /\ ppc = "returned"
    /\ presult = Ok({})
    /\ ~popen
    /\ Count(pout, "bytes") >= 1
    /\ Count(pout, "done") = 0

\* verify_login met an auth challenge and installed the prompted token.
TokenInstalled ==
    /\ calls # << >>
    /\ calls[1].op = "login" /\ calls[1].result.tag = "NotLoggedIn"
    /\ mpc = "login2" \/ (Len(calls) >= 2 /\ calls[2].op = "login")

\* C23: after verify_login installed a prompted token, the host of the
\* installed credentials, the host the retried identity check is sent to
\* and the host written to the credential file are the host the challenged
\* identity check was sent to.
C23_HostUnchanged ==
    TokenInstalled
        => /\ config.some /\ config.host = calls[1].url.host
           /\ Len(calls) >= 2 => calls[2].url.host = calls[1].url.host
           /\ saves >= 1 => file.host = calls[1].url.host

====
